---------------------------- MODULE Spec2Model ----------------------------
(***************************************************************************)
(* ResourceManager (src/src/modules/resourceManager.ts): the image/model   *)
(* loader with its caches, its ledger of loading promises, its set of      *)
(* failed resources and its load statistics.                               *)
(*                                                                         *)
(* JavaScript runs one task at a time.  A call of loadOptimizedImage or    *)
(* loadModel runs synchronously up to its first await; the continuation    *)
(* of the call that created a loading promise is the first reaction of     *)
(* that promise, so it runs in the same turn in which the promise settles, *)
(* before any caller sees an outcome.  Each action below is one such       *)
(* uninterrupted run.                                                      *)
(*                                                                         *)
(* Every call is kept in `calls` (a call's id is its index).  The promise  *)
(* created by a call that starts a fetch is identified with that call's    *)
(* id, and the artifact a fetch delivers with the id of its promise.       *)
(* textureCache is never written and is left out.                          *)
(***************************************************************************)
EXTENDS Integers, Sequences, FiniteSets, TLC

\* Bounds of the model: the calls of a behaviour of Spec, the calls that
\* precede preloadResources in a behaviour of SpecPreload, the calls of
\* cleanup, the clock values
MaxCalls == 3
MaxBefore == 1
MaxCleanups == 1
MaxTime == 1
MaxSide == 22       \* the sides of a fetched image, in pixels
MaxIconCalls == 1   \* calls of loadIcons from outside addMarkers
MaxMarkerCalls == 2 \* calls of addMarkers
MaxPopups == 1      \* calls of showBoundaryPopup

\* Keys (URLs) the callers use directly, the lists handed to
\* preloadResources, and the values of Date.now()
DirectKeys == {"a", "b"}
PreloadLists ==
  { << >>, <<"a", "b">>, <<"a", "b", "c", "d">>, <<"a", "a", "b", "c">> }
Times == 0..MaxTime

VARIABLES
  imageCache,       \* url -> artifact              (line 14)
  modelCache,       \* url -> artifact              (line 15)
  loadingPromises,  \* url -> promise               (line 17)
  failedResources,  \* set of urls                  (line 18)
  loadTimes,        \* url -> Date.now() of success (line 21)
  loadCounts,       \* url -> number of successes   (line 22)
  calls,            \* every call made so far, with its outcome
  preload,          \* the preloadResources call in progress
  cleanups,         \* the number of cleanup calls so far
  img,              \* the fetched image of loadImageWithOptimization (line 83)
  resolved,         \* what loadImageWithOptimization resolved with   (lines 96-98)
  markers,          \* boundaryUtils.ts: the icons and markers of the map
  geo               \* geolocation.ts: the GeolocationManager

vars ==
  << imageCache, modelCache, loadingPromises, failedResources,
     loadTimes, loadCounts, calls, preload, cleanups, img, resolved,
     markers, geo >>

----------------------------------------------------------------------------
\* Maps (JavaScript Map / WeakMap / Set contents)

EmptyMap == [x \in {} |-> 0]

MapSet(m, k, v) == [x \in DOMAIN m \cup {k} |-> IF x = k THEN v ELSE m[x]]

\* (MapKeep: the slip of leaving the entry in the map)
MapKeep(m, k) == m

MapDelete(m, k) == [x \in DOMAIN m \ {k} |-> m[x]]

\* new WeakMap<string, HTMLImageElement>(): WeakMap.prototype.set throws a
\* TypeError for a key that is not an object; every url is a string.
\* has() and get() of such a key answer false / undefined without throwing.
CanBeHeldWeakly(url) == FALSE

----------------------------------------------------------------------------
\* Calls

\* op      "image" (loadOptimizedImage) or "model" (loadModel)
\* role    "owner": the call created the loading promise and started the fetch
\*         "joiner": the call returned the registered promise of another call
\*         "none": the call returned without touching a promise
\* promise the id of the promise an owner or joiner waits on (0 for none)
\* status  "pending", "resolved" or "rejected": the promise the caller holds
\* value   the artifact a resolved call delivers (0 otherwise)
\* error   the error a rejected call delivers ("none" otherwise)
\* fetch   outcome of the owner's underlying fetch, "none" while in flight
\* via     "direct" or "preload": who made the call
\* late    "load" or "error" when the img element of a load whose timer has
\*         fired raised that event afterwards, else "none"
\* inv     history: "none" when cleanup has not run since the call was made,
\*         else the call's status when cleanup last ran: "pending" or "settled"
NewCall(op, url, role, promise, status, value, error, via) ==
  [ op |-> op, url |-> url, role |-> role, promise |-> promise,
    status |-> status, value |-> value, error |-> error, fetch |-> "none",
    via |-> via, inv |-> "none", late |-> "none" ]

CallIds == 1..Len(calls)

\* The fetches in flight: loading promises not yet settled
InFlightOf(cs) ==
  { p \in 1..Len(cs) : cs[p].role = "owner" /\ cs[p].status = "pending" }

InFlight == InFlightOf(calls)

\* What the loading promise of owner record `o`, promise p, settled with:
\* loadImageWithOptimization resolves with the image on load and rejects on
\* error or timeout; the loader's callbacks resolve or reject the model promise.
RawStatus(o) == IF o.fetch = "ok" THEN "resolved" ELSE "rejected"

RawValue(o, p) == IF o.fetch = "ok" THEN p ELSE 0

RawError(o) ==
  CASE o.fetch = "ok" -> "none"
    [] o.fetch = "timeout" -> "LoadTimeout"
    [] o.op = "image" -> "LoadFailed"
    [] OTHER -> "LoaderError"

\* A call that returns the promise p: pending while p is, then p's outcome
JoinCall(cs, op, url, p, via) ==
  IF cs[p].status = "pending"
    THEN NewCall(op, url, "joiner", p, "pending", 0, "none", via)
    ELSE NewCall(op, url, "joiner", p, RawStatus(cs[p]), RawValue(cs[p], p),
                 RawError(cs[p]), via)

----------------------------------------------------------------------------
\* loadOptimizedImage and loadModel up to their first await.  S is the part of
\* the state a synchronous run of calls changes: [calls, lp (loadingPromises)].

\* Variants of loadOptimizedImage with a plausible slip each: the ledger of
\* loading promises is not consulted; failedResources is not consulted
LoadOptimizedImageSyncNoLedger(S, url, via) ==
  LET id == Len(S.calls) + 1 IN
  IF url \in failedResources
    THEN [ S EXCEPT !.calls = Append(@,
             NewCall("image", url, "none", 0, "rejected", 0, "PreviouslyFailed", via)) ]
  ELSE IF url \in DOMAIN imageCache
    THEN [ S EXCEPT !.calls = Append(@,
             NewCall("image", url, "none", 0, "resolved", imageCache[url], "none", via)) ]
  ELSE [ calls |-> Append(S.calls,
             NewCall("image", url, "owner", id, "pending", 0, "none", via)),
         lp |-> MapSet(S.lp, url, id) ]

LoadOptimizedImageSyncNoFailedCheck(S, url, via) ==
  LET id == Len(S.calls) + 1 IN
  IF url \in DOMAIN S.lp
    THEN [ S EXCEPT !.calls = Append(@, JoinCall(S.calls, "image", url, S.lp[url], via)) ]
  ELSE IF url \in DOMAIN imageCache
    THEN [ S EXCEPT !.calls = Append(@,
             NewCall("image", url, "none", 0, "resolved", imageCache[url], "none", via)) ]
  ELSE [ calls |-> Append(S.calls,
             NewCall("image", url, "owner", id, "pending", 0, "none", via)),
         lp |-> MapSet(S.lp, url, id) ]

\* loadOptimizedImage, lines 36-59
LoadOptimizedImageSync(S, url, via) ==
  LET id == Len(S.calls) + 1 IN
  IF url \in failedResources
    THEN [ S EXCEPT !.calls = Append(@,
             NewCall("image", url, "none", 0, "rejected", 0, "PreviouslyFailed", via)) ]
  ELSE IF url \in DOMAIN S.lp
    THEN [ S EXCEPT !.calls = Append(@, JoinCall(S.calls, "image", url, S.lp[url], via)) ]
  ELSE IF url \in DOMAIN imageCache
    THEN [ S EXCEPT !.calls = Append(@,
             NewCall("image", url, "none", 0, "resolved", imageCache[url], "none", via)) ]
  ELSE [ calls |-> Append(S.calls,
             NewCall("image", url, "owner", id, "pending", 0, "none", via)),
         lp |-> MapSet(S.lp, url, id) ]

\* loadModel, lines 136-160: the cache, then the ledger; failedResources is
\* not consulted
LoadModelSync(S, url, via) ==
  LET id == Len(S.calls) + 1 IN
  IF url \in DOMAIN modelCache
    THEN [ S EXCEPT !.calls = Append(@,
             NewCall("model", url, "none", 0, "resolved", modelCache[url], "none", via)) ]
  ELSE IF url \in DOMAIN S.lp
    THEN [ S EXCEPT !.calls = Append(@, JoinCall(S.calls, "model", url, S.lp[url], via)) ]
  ELSE [ calls |-> Append(S.calls,
             NewCall("model", url, "owner", id, "pending", 0, "none", via)),
         lp |-> MapSet(S.lp, url, id) ]

Here == [ calls |-> calls, lp |-> loadingPromises ]

\* A caller calls loadOptimizedImage(url)
LoadImageCall(url) ==
  /\ LET S == LoadOptimizedImageSync(Here, url, "direct") IN
       /\ calls' = S.calls
       /\ loadingPromises' = S.lp
  /\ UNCHANGED << markers, geo, img, resolved, imageCache, modelCache, failedResources,
                  loadTimes, loadCounts, preload, cleanups >>

\* A caller calls loadModel(url, loader)
LoadModelCall(url) ==
  /\ LET S == LoadModelSync(Here, url, "direct") IN
       /\ calls' = S.calls
       /\ loadingPromises' = S.lp
  /\ UNCHANGED << markers, geo, img, resolved, imageCache, modelCache, failedResources,
                  loadTimes, loadCounts, preload, cleanups >>

----------------------------------------------------------------------------
\* Settlement of a loading promise and the continuation of the call that
\* created it (the try / catch / finally after the await).

\* trackLoadSuccess, lines 255-259; now is Date.now()
TrackLoadSuccess(T, url, now) ==
  [ times |-> MapSet(T.times, url, now),
    counts |-> MapSet(T.counts, url,
                 (IF url \in DOMAIN T.counts THEN T.counts[url] ELSE 0) + 1) ]

Stats == [ times |-> loadTimes, counts |-> loadCounts ]

\* getStats (lines 235-250).  this.imageCache is an object and so truthy:
\* cachedImages is -1 whatever was loaded.  averageLoadTime is the mean of
\* the Date.now() stamps in loadTimes, here its integer part.
RECURSIVE SumOver(_, _)
SumOver(m, keys) ==
  IF keys = {} THEN 0
  ELSE LET k == CHOOSE x \in keys : TRUE IN m[k] + SumOver(m, keys \ {k})

GetStats ==
  LET totalLoadTime == SumOver(loadTimes, DOMAIN loadTimes)
      totalLoads == Cardinality(DOMAIN loadTimes)
  IN [ cachedImages |-> IF TRUE THEN -1 ELSE 0,
       cachedModels |-> Cardinality(DOMAIN modelCache),
       failedResources |-> Cardinality(failedResources),
       averageLoadTime |->
         IF totalLoads > 0 THEN totalLoadTime \div totalLoads ELSE 0 ]

\* (SettleNobody: the slip of settling the owner's call only)
SettleNobody(cs, p) == cs

\* The callers that returned promise p receive its outcome
SettleJoiners(cs, p) ==
  [ c \in 1..Len(cs) |->
      IF cs[c].role = "joiner" /\ cs[c].promise = p /\ cs[c].status = "pending"
        THEN [ cs[c] EXCEPT !.status = RawStatus(cs[p]),
                            !.value = RawValue(cs[p], p),
                            !.error = RawError(cs[p]) ]
        ELSE cs[c] ]

\* loadImageWithOptimization's promise p settles (img.onload, img.onerror or
\* the timeout, lines 87-106), then lines 61-72 of loadOptimizedImage run
SettleImage(p, outcome, now) ==
  /\ p \in InFlight
  /\ calls[p].op = "image"
  /\ LET url == calls[p].url
         stored == outcome = "ok" /\ CanBeHeldWeakly(url)
         err == CASE outcome = "error" -> "LoadFailed"
                  [] outcome = "timeout" -> "LoadTimeout"
                  [] OTHER -> "TypeError"   \* imageCache.set threw
         T == TrackLoadSuccess(Stats, url, now)
     IN
       /\ imageCache' = IF stored THEN MapSet(imageCache, url, p) ELSE imageCache
       /\ loadTimes' = IF stored THEN T.times ELSE loadTimes
       /\ loadCounts' = IF stored THEN T.counts ELSE loadCounts
       /\ failedResources' =
            IF stored THEN failedResources ELSE failedResources \cup {url}
       /\ loadingPromises' = MapDelete(loadingPromises, url)
       /\ calls' = SettleJoiners(
            [ calls EXCEPT ![p].fetch = outcome,
                           ![p].status = IF stored THEN "resolved" ELSE "rejected",
                           ![p].value = IF stored THEN p ELSE 0,
                           ![p].error = IF stored THEN "none" ELSE err ], p)
  /\ UNCHANGED << markers, geo, img, resolved, modelCache, preload, cleanups >>

\* resolve() and reject() of the promise of line 82 act on a pending promise
\* only: the first of the timer (line 89), onload (lines 96-98) and onerror
\* (line 105) settles it.
\* (SettleAgain: a promise that a later resolve() or reject() settles anew)
SettleAgain(o, outcome) == [ o EXCEPT !.fetch = outcome ]

SettleOnce(o, outcome) ==
  IF o.fetch = "none" THEN [ o EXCEPT !.fetch = outcome ] ELSE o

\* After the timer of load p has fired (line 88 only empties img.src), the img
\* element still raises load or error: the handler of lines 92-106 runs
\* clearTimeout and resolve() or reject().  Lines 61-72 run again only if
\* that settles the promise.
LateEvent(p, ev, now) ==
  /\ p \in CallIds
  /\ calls[p].role = "owner" /\ calls[p].op = "image"
  /\ calls[p].fetch = "timeout" /\ calls[p].late = "none"
  /\ LET url == calls[p].url
         o == SettleOnce(calls[p], IF ev = "load" THEN "ok" ELSE "error")
         again == o.fetch # calls[p].fetch
         stored == again /\ o.fetch = "ok" /\ CanBeHeldWeakly(url)
         T == TrackLoadSuccess(Stats, url, now)
     IN
       /\ imageCache' = IF stored THEN MapSet(imageCache, url, p) ELSE imageCache
       /\ loadTimes' = IF stored THEN T.times ELSE loadTimes
       /\ loadCounts' = IF stored THEN T.counts ELSE loadCounts
       /\ failedResources' =
            IF again /\ ~stored THEN failedResources \cup {url} ELSE failedResources
       /\ loadingPromises' =
            IF again THEN MapDelete(loadingPromises, url) ELSE loadingPromises
       /\ calls' = [ calls EXCEPT ![p] = [ o EXCEPT !.late = ev ] ]
  /\ UNCHANGED << markers, geo, img, resolved, modelCache, preload, cleanups >>

\* the loader calls back (lines 151-156), then lines 162-173 of loadModel run
SettleModel(p, outcome, now) ==
  /\ p \in InFlight
  /\ calls[p].op = "model"
  /\ LET url == calls[p].url
         ok == outcome = "ok"
         T == TrackLoadSuccess(Stats, url, now)
     IN
       /\ modelCache' = IF ok THEN MapSet(modelCache, url, p) ELSE modelCache
       /\ loadTimes' = IF ok THEN T.times ELSE loadTimes
       /\ loadCounts' = IF ok THEN T.counts ELSE loadCounts
       /\ failedResources' =
            IF ok THEN failedResources ELSE failedResources \cup {url}
       /\ loadingPromises' = MapDelete(loadingPromises, url)
       /\ calls' = SettleJoiners(
            [ calls EXCEPT ![p].fetch = outcome,
                           ![p].status = IF ok THEN "resolved" ELSE "rejected",
                           ![p].value = IF ok THEN p ELSE 0,
                           ![p].error = IF ok THEN "none" ELSE "LoaderError" ], p)
  /\ UNCHANGED << markers, geo, img, resolved, imageCache, preload, cleanups >>

----------------------------------------------------------------------------
\* Variants of cleanup with a plausible slip each: failedResources is not
\* cleared; loadingPromises is not cleared
CleanupCallKeepsFailed ==
  /\ imageCache' = EmptyMap
  /\ modelCache' = EmptyMap
  /\ loadingPromises' = EmptyMap
  /\ loadTimes' = EmptyMap
  /\ loadCounts' = EmptyMap
  /\ failedResources' = failedResources
  /\ calls' = [ c \in CallIds |->
       [ calls[c] EXCEPT !.inv =
           IF calls[c].status = "pending" THEN "pending" ELSE "settled" ] ]
  /\ cleanups' = cleanups + 1
  /\ UNCHANGED << markers, geo, img, resolved, preload >>

CleanupCallKeepsPending ==
  /\ imageCache' = EmptyMap
  /\ modelCache' = EmptyMap
  /\ loadingPromises' = loadingPromises
  /\ loadTimes' = EmptyMap
  /\ loadCounts' = EmptyMap
  /\ failedResources' = {}
  /\ calls' = [ c \in CallIds |->
       [ calls[c] EXCEPT !.inv =
           IF calls[c].status = "pending" THEN "pending" ELSE "settled" ] ]
  /\ cleanups' = cleanups + 1
  /\ UNCHANGED << markers, geo, img, resolved, preload >>

\* (CleanupCallKeepsStats: loadTimes and loadCounts are not cleared)
CleanupCallKeepsStats ==
  /\ imageCache' = EmptyMap
  /\ modelCache' = EmptyMap
  /\ loadingPromises' = EmptyMap
  /\ loadTimes' = loadTimes
  /\ loadCounts' = loadCounts
  /\ failedResources' = {}
  /\ calls' = [ c \in CallIds |->
       [ calls[c] EXCEPT !.inv =
           IF calls[c].status = "pending" THEN "pending" ELSE "settled" ] ]
  /\ cleanups' = cleanups + 1
  /\ UNCHANGED << markers, geo, img, resolved, preload >>

\* cleanup, lines 219-230.  The loads in flight are not told; `inv` records
\* for later reference how cleanup found each call.
CleanupCall ==
  /\ imageCache' = EmptyMap
  /\ modelCache' = EmptyMap
  /\ loadingPromises' = EmptyMap
  /\ loadTimes' = EmptyMap
  /\ loadCounts' = EmptyMap
  /\ failedResources' = {}
  /\ calls' = [ c \in CallIds |->
       [ calls[c] EXCEPT !.inv =
           IF calls[c].status = "pending" THEN "pending" ELSE "settled" ] ]
  /\ cleanups' = cleanups + 1
  /\ UNCHANGED << markers, geo, img, resolved, preload >>

----------------------------------------------------------------------------
\* preloadResources, lines 200-214

\* line 201: batchSize
\* (BatchSizeOffByOne: the slip of a batch one longer)
BatchSizeOffByOne == 3 + 1

BatchSize == 3

Min(x, y) == IF x < y THEN x ELSE y

\* lines 202-206: urls.slice(i, i + batchSize) for i = 0, batchSize, ...
Batches(urls) ==
  [ b \in 1..((Len(urls) + BatchSize - 1) \div BatchSize) |->
      SubSeq(urls, (b - 1) * BatchSize + 1, Min(b * BatchSize, Len(urls))) ]

\* line 209-211: batch.map(url => this.loadOptimizedImage(url)...), in order
RECURSIVE IssueBatch(_, _)
IssueBatch(S, batch) ==
  IF batch = << >> THEN S
  ELSE IssueBatch(LoadOptimizedImageSync(S, Head(batch), "preload"), Tail(batch))

\* line 210: .catch(() => null) turns a rejection into a fulfilment with null
CatchNull(status) == IF status = "rejected" THEN "resolved" ELSE status

\* (PromiseRace: the slip of awaiting the first promise to settle, not all)
PromiseRace(cs, ids) ==
  IF ids = {} \/ \E c \in ids : cs[c].status # "pending" THEN "resolved"
  ELSE "pending"

\* line 212: Promise.all over the wrapped promises of the calls in `ids`
PromiseAll(cs, ids) ==
  IF \E c \in ids : CatchNull(cs[c].status) = "rejected" THEN "rejected"
  ELSE IF \A c \in ids : CatchNull(cs[c].status) = "resolved" THEN "resolved"
  ELSE "pending"

\* preload.status  "idle", "running", "resolved" or "rejected"
\* preload.batches the batches of the call; preload.bi the batch being awaited
\* preload.waiting the calls of that batch
StartBatch(batches, bi) ==
  LET S == IssueBatch(Here, batches[bi]) IN
  /\ calls' = S.calls
  /\ loadingPromises' = S.lp
  /\ preload' = [ status |-> "running", batches |-> batches, bi |-> bi,
                  waiting |-> (Len(calls) + 1)..Len(S.calls) ]

\* A caller calls preloadResources(urls); the first batch is issued at once
PreloadCall(urls) ==
  /\ IF Len(Batches(urls)) = 0
       THEN /\ preload' = [ status |-> "resolved", batches |-> << >>, bi |-> 0,
                            waiting |-> {} ]
            /\ UNCHANGED << calls, loadingPromises >>
       ELSE StartBatch(Batches(urls), 1)
  /\ UNCHANGED << markers, geo, img, resolved, imageCache, modelCache, failedResources,
                  loadTimes, loadCounts, cleanups >>

\* The await of line 212 returns (or throws): next batch, or the end
PreloadAdvance ==
  /\ preload.status = "running"
  /\ PromiseAll(calls, preload.waiting) # "pending"
  /\ IF PromiseAll(calls, preload.waiting) = "rejected"
       THEN /\ preload' = [ preload EXCEPT !.status = "rejected", !.waiting = {} ]
            /\ UNCHANGED << calls, loadingPromises >>
     ELSE IF preload.bi < Len(preload.batches)
       THEN StartBatch(preload.batches, preload.bi + 1)
     ELSE /\ preload' = [ preload EXCEPT !.status = "resolved", !.waiting = {} ]
          /\ UNCHANGED << calls, loadingPromises >>
  /\ UNCHANGED << markers, geo, img, resolved, imageCache, modelCache, failedResources,
                  loadTimes, loadCounts, cleanups >>

----------------------------------------------------------------------------
\* loadImageWithOptimization's onload handler and resizeImage (lines 92-131)

\* The natural sizes of the fetched image and the maxSize arguments tried
Sides == (1..MaxSide) \cup {300, 400, 512, 1024}

MaxSizes == {2, 15, 512}

NoImage == [ width |-> 0, height |-> 0 ]

Unresolved == [ maxSize |-> 0, width |-> 0, height |-> 0, original |-> FALSE ]

Max(x, y) == IF x > y THEN x ELSE y

RECURSIVE Pow2(_)
Pow2(n) == IF n = 0 THEN 1 ELSE 2 * Pow2(n - 1)

\* the exponent of n >= 1: 2^Log2(n) <= n < 2^(Log2(n)+1)
RECURSIVE Log2(_)
Log2(n) == IF n < 2 THEN 0 ELSE 1 + Log2(n \div 2)

\* 2^n mod d, by squaring
RECURSIVE Pow2Mod(_, _)
Pow2Mod(n, d) ==
  IF n = 0 THEN 1 % d
  ELSE LET half == Pow2Mod(n \div 2, d)
       IN (half * half * (IF n % 2 = 1 THEN 2 ELSE 1)) % d

\* the j >= 1 with 2^-j <= m/L < 2^(1-j), for 0 < m < L
RECURSIVE Binade(_, _)
Binade(m, L) == IF 2 * m >= L THEN 1 ELSE 1 + Binade(2 * m, L)

\* maxSize / L in IEEE-754 double arithmetic (line 120), for 0 < maxSize < L.
\* The quotient is rounded to 53 significant bits: it is M / 2^k with
\* k = 52 + Binade and M the integer nearest to maxSize * 2^k / L.  With
\* R = (maxSize * 2^k) mod L the double is exactly
\*     maxSize / L + err / (L * 2^k),   err = (IF 2R > L THEN L ELSE 0) - R.
\* (2R = L cannot happen: the quotient would then have at most 13 bits, R = 0.)
Quotient(maxSize, L) ==
  LET k == 52 + Binade(maxSize, L)
      R == (maxSize * Pow2Mod(k, L)) % L
  IN [ k |-> k, err |-> (IF 2 * R > L THEN L ELSE 0) - R ]

\* canvas.width = x * scale (lines 121-122): the double product x * scale,
\* cut to an integer by the conversion to the canvas's unsigned long.
\* The exact product is x*maxSize/L + x*err/(L*2^k) and the second term is
\* below 2^-40: the integer part is that of x*maxSize/L unless L divides
\* x*maxSize, the quotient is Q, and err < 0.  The product then lies below
\* Q and rounds to Q exactly when it is no further from Q than half the
\* spacing of the doubles below Q, 2^(e-53), or 2^(e-54) for Q = 2^e.
TimesScale(x, maxSize, L) ==
  LET q == Quotient(maxSize, L)
      Q == (x * maxSize) \div L
      r == (x * maxSize) % L
  IN IF r # 0 \/ q.err >= 0 THEN Q
     ELSE LET e == Log2(Q)
              ex == q.k + e - 53 - (IF Q = Pow2(e) THEN 1 ELSE 0)
              deficit == x * (0 - q.err)
          IN IF deficit * Pow2(Max(0, 0 - ex)) <= L * Pow2(Max(0, ex))
               THEN Q ELSE Q - 1

\* resizeImage (lines 115-131).  Math.min of the two quotients is the
\* quotient by the longer side.  The result is a new Image made from the
\* canvas; its size, once decoded, is the canvas's.
ResizeImage(im, maxSize) ==
  LET L == Max(im.width, im.height) IN
  [ width |-> TimesScale(im.width, maxSize, L),
    height |-> TimesScale(im.height, maxSize, L),
    original |-> FALSE ]

\* img.onload (lines 92-101)
Onload(im, maxSize) ==
  IF Max(im.width, im.height) > maxSize
    THEN ResizeImage(im, maxSize)
    ELSE [ width |-> im.width, height |-> im.height, original |-> TRUE ]

\* The fetched image loads in a call with the argument maxSize
ImgOnload(maxSize) ==
  /\ img # NoImage
  /\ resolved = Unresolved
  /\ resolved' = [ maxSize |-> maxSize,
                   width |-> Onload(img, maxSize).width,
                   height |-> Onload(img, maxSize).height,
                   original |-> Onload(img, maxSize).original ]
  /\ UNCHANGED << markers, geo, img, imageCache, modelCache, loadingPromises,
                  failedResources, loadTimes, loadCounts, calls, preload,
                  cleanups >>

----------------------------------------------------------------------------
\* boundaryUtils.ts, lines 1030-1218: loadIcons, loadSingleIcon, addMarkers.
\* The fields of `markers`:
\*   iconCache, loadingIcons   the module's two collections (lines 1030-1031)
\*   images                    the icon urls for which map.hasImage is true
\*   markersAdded              state.markersAdded
\*   addSourceCalls            how often map.addSource('locations') was called
\*   addLayerCalls             how often map.addLayer was called
\*   icalls                    the loadIcons calls: the urls each one loads,
\*                             those still being fetched, and its promise
\*   mcalls                    the addMarkers calls: the loadIcons call each
\*                             one awaits (0: none) and its promise
Icons == {"i1", "i2"}

NoMarkers ==
  [ iconCache |-> {}, loadingIcons |-> {}, images |-> {},
    markersAdded |-> FALSE, addSourceCalls |-> 0, addLayerCalls |-> 0,
    icalls |-> << >>, mcalls |-> << >> ]

managerVars ==
  << imageCache, modelCache, loadingPromises, failedResources, loadTimes,
     loadCounts, calls, preload, cleanups, img, resolved >>

\* (LoadIconsSyncAll: the slip of not skipping the icons that are loading)
LoadIconsSyncAll(M, icons) ==
  LET iconsToLoad == { u \in icons : u \notin M.images }
      fetched == iconsToLoad \ M.iconCache
  IN [ M EXCEPT
         !.loadingIcons = @ \cup fetched,
         !.images = @ \cup (iconsToLoad \cap M.iconCache),
         !.icalls = Append(@,
            [ icons |-> iconsToLoad, waiting |-> fetched,
              status |-> IF fetched = {} THEN "resolved" ELSE "pending" ]) ]

\* loadIcons up to its await (lines 1036-1062), with the part of loadSingleIcon
\* that runs at once (lines 1069-1080).  `icons` are the icons of the features
\* at the time of the call.  An icon in iconCache is put on the map and its
\* load is over, finally included, when the call's tick ends; the others are
\* fetched.  With nothing to fetch the call's promise is resolved.
LoadIconsSync(M, icons) ==
  LET iconsToLoad ==
        { u \in icons : u \notin M.images /\ u \notin M.loadingIcons }
      fetched == iconsToLoad \ M.iconCache
  IN [ M EXCEPT
         !.loadingIcons = @ \cup fetched,
         !.images = @ \cup (iconsToLoad \cap M.iconCache),
         !.icalls = Append(@,
            [ icons |-> iconsToLoad, waiting |-> fetched,
              status |-> IF fetched = {} THEN "resolved" ELSE "pending" ]) ]

\* addMarkers after its await (lines 1113-1217), for the call m.  What the
\* map does with a second source of the same id is the map library's affair:
\* it throws (the call is rejected there) or it does not.
AddSourceAndLayers(M, m, throws) ==
  IF M.addSourceCalls >= 1 /\ throws
    THEN [ M EXCEPT !.addSourceCalls = @ + 1,
                    !.mcalls[m].status = "rejected" ]
    ELSE [ M EXCEPT !.addSourceCalls = @ + 1,
                    !.addLayerCalls = @ + 3,
                    !.markersAdded = TRUE,
                    !.mcalls[m].status = "resolved" ]

\* the addMarkers calls that await the loadIcons call i
Awaiting(M, i) ==
  { m \in 1..Len(M.mcalls) :
      M.mcalls[m].icall = i /\ M.mcalls[m].status = "awaiting" }

\* A caller calls loadIcons(map)
LoadIconsCall(icons) ==
  /\ markers' = LoadIconsSync(markers, icons)
  /\ UNCHANGED << managerVars, geo >>

\* A caller calls addMarkers(map) (lines 1107-1111); when loadIcons has
\* nothing to fetch, the rest of addMarkers runs in the same tick.
AddMarkersCall(icons, throws) ==
  /\ LET m == Len(markers.mcalls) + 1 IN
     IF markers.markersAdded
       THEN markers' = [ markers EXCEPT !.mcalls =
                           Append(@, [ icall |-> 0, status |-> "resolved" ]) ]
       ELSE LET M1 == LoadIconsSync(markers, icons)
                i == Len(M1.icalls)
                M2 == [ M1 EXCEPT !.mcalls =
                          Append(@, [ icall |-> i, status |-> "awaiting" ]) ]
            IN markers' = IF M1.icalls[i].status = "resolved"
                            THEN AddSourceAndLayers(M2, m, throws)
                            ELSE M2
  /\ UNCHANGED << managerVars, geo >>

\* The fetch of icon u for the loadIcons call i ends (lines 1080-1088, 1095-
\* 1096), then the finally of line 1058; when it was the call's last, the
\* call's promise resolves (line 1062) and the addMarkers call that awaits it
\* goes on.
IconSettles(i, u, ok, throws) ==
  /\ i \in 1..Len(markers.icalls)
  /\ u \in markers.icalls[i].waiting
  /\ LET last == markers.icalls[i].waiting = {u}
         M1 == [ markers EXCEPT
                   !.iconCache = IF ok THEN @ \cup {u} ELSE @,
                   !.images = IF ok THEN @ \cup {u} ELSE @,
                   !.loadingIcons = @ \ {u},
                   !.icalls[i].waiting = @ \ {u},
                   !.icalls[i].status = IF last THEN "resolved" ELSE @ ]
     IN markers' =
          IF last /\ Awaiting(M1, i) # {}
            THEN AddSourceAndLayers(M1, CHOOSE m \in Awaiting(M1, i) : TRUE, throws)
            ELSE M1
  /\ UNCHANGED << managerVars, geo >>

----------------------------------------------------------------------------
\* geolocation.ts: the GeolocationManager.  The fields of `geo`:
\*   control      this.geolocateControl is defined
\*   watchState   the control's _watchState
\*   userInitiatedGeolocation, wasTracking (undefined reads as FALSE)
\*   popups       how often showBoundaryPopup has run
\*   timers       the timeouts made by addTrackedTimeout, in the order made:
\*                the callback and "pending", "fired" or "cleared"
\*   timeouts     this.timeouts, the ids being the positions in `timers`
\*   last         history: the handler or method that ran last, and for
\*                onSuccess the position, whether the control's own
\*                _onSuccess was called and whether the popup was shown; for
\*                pauseTracking and resumeTracking whether the test passed
WatchStates == {"OFF", "WAITING_ACTIVE", "ACTIVE_LOCK", "ACTIVE_ERROR", "BACKGROUND"}

Positions == {"inside", "outside"}

Ran(op) == [ op |-> op, pos |-> "none", original |-> FALSE, popup |-> FALSE,
             did |-> FALSE ]

\* the constructor (lines 87-101) and setupGeolocateControl (lines 261-278)
NewGeolocationManager ==
  [ control |-> TRUE, watchState |-> "OFF",
    userInitiatedGeolocation |-> FALSE, wasTracking |-> FALSE,
    popups |-> 0, timers |-> << >>, timeouts |-> {}, last |-> Ran("none") ]

\* isWithinBoundary, by the position's side of the boundary circle
IsWithinBoundary(pos) == pos = "inside"

\* addTrackedTimeout (lines 908-915), the part that runs at once
AddTrackedTimeout(G, callback) ==
  [ G EXCEPT !.timers = Append(@, [ callback |-> callback, state |-> "pending" ]),
             !.timeouts = @ \cup {Len(G.timers) + 1} ]

\* showBoundaryPopup (lines 725-845): the timeout that closes the popup, and
\* the one that ends the highlight when the map has the boundary layer
ShowBoundaryPopup(G, layer) ==
  LET G1 == AddTrackedTimeout([ G EXCEPT !.popups = @ + 1 ], "close")
  IN IF layer THEN AddTrackedTimeout(G1, "highlight") ELSE G1

\* (OnSuccessKeepsFlag: the slip of not resetting the flag on the usual path)
OnSuccessKeepsFlag(G, pos, next, layer) ==
  IF G.userInitiatedGeolocation /\ ~IsWithinBoundary(pos)
    THEN [ ShowBoundaryPopup([ G EXCEPT !.watchState = "OFF" ], layer) EXCEPT
             !.userInitiatedGeolocation = FALSE,
             !.last = [ Ran("success") EXCEPT !.pos = pos, !.popup = TRUE ] ]
    ELSE [ G EXCEPT
             !.watchState = next,
             !.last = [ Ran("success") EXCEPT !.pos = pos, !.original = TRUE ] ]

\* the _onSuccess that replaces the control's (lines 281-325).  `next` is the
\* watch state the control's own _onSuccess leaves.
OnSuccess(G, pos, next, layer) ==
  IF G.userInitiatedGeolocation /\ ~IsWithinBoundary(pos)
    THEN [ ShowBoundaryPopup([ G EXCEPT !.watchState = "OFF" ], layer) EXCEPT
             !.userInitiatedGeolocation = FALSE,
             !.last = [ Ran("success") EXCEPT !.pos = pos, !.popup = TRUE ] ]
    ELSE [ G EXCEPT
             !.watchState = next,
             !.userInitiatedGeolocation = FALSE,
             !.last = [ Ran("success") EXCEPT !.pos = pos, !.original = TRUE ] ]

\* the 'error' handler (lines 328-338); `next` is the watch state the control
\* is left in
OnError(G, next) ==
  [ G EXCEPT !.watchState = next,
             !.userInitiatedGeolocation = FALSE,
             !.last = Ran("error") ]

\* the click handler of the geolocate button (lines 345-351), which runs
\* before the control's own; `next` is the watch state the control goes to
OnClick(G, next) ==
  [ G EXCEPT !.watchState = next,
             !.userInitiatedGeolocation = TRUE,
             !.last = Ran("click") ]

\* pauseTracking (lines 115-120)
PauseTracking(G) ==
  IF G.control /\ G.watchState = "ACTIVE_LOCK"
    THEN [ G EXCEPT !.wasTracking = TRUE,
                    !.watchState = "ACTIVE_ERROR",
                    !.last = [ Ran("pause") EXCEPT !.did = TRUE ] ]
    ELSE [ G EXCEPT !.last = Ran("pause") ]

\* (ResumeTrackingKeepsFlag: the slip of leaving wasTracking set)
ResumeTrackingKeepsFlag(G) ==
  IF G.control /\ G.wasTracking
    THEN [ G EXCEPT !.watchState = "ACTIVE_LOCK",
                    !.last = [ Ran("resume") EXCEPT !.did = TRUE ] ]
    ELSE [ G EXCEPT !.last = Ran("resume") ]

\* resumeTracking (lines 125-130)
ResumeTracking(G) ==
  IF G.control /\ G.wasTracking
    THEN [ G EXCEPT !.watchState = "ACTIVE_LOCK",
                    !.wasTracking = FALSE,
                    !.last = [ Ran("resume") EXCEPT !.did = TRUE ] ]
    ELSE [ G EXCEPT !.last = Ran("resume") ]

\* The timeout id comes due (lines 909-912): the id leaves this.timeouts, then
\* the callback runs; the one that closes the popup makes two more timeouts
\* (lines 760-771).
TimeoutFires(G, id) ==
  LET G1 == [ G EXCEPT !.timeouts = @ \ {id},
                       !.timers[id].state = "fired",
                       !.last = Ran("timer") ]
  IN IF G.timers[id].callback = "close"
       THEN AddTrackedTimeout(AddTrackedTimeout(G1, "remove"), "hide")
       ELSE G1

\* (CleanupForgetsTimeouts: this.timeouts is emptied, no timeout is cleared)
CleanupForgetsTimeouts(G) ==
  [ G EXCEPT !.control = FALSE,
             !.timeouts = {},
             !.last = Ran("cleanup") ]

\* cleanup (lines 845-885): the control is removed, every timeout in
\* this.timeouts is cleared
GeoCleanup(G) ==
  [ G EXCEPT !.control = FALSE,
             !.timers = [ id \in 1..Len(G.timers) |->
                            IF id \in G.timeouts
                              THEN [ G.timers[id] EXCEPT !.state = "cleared" ]
                              ELSE G.timers[id] ],
             !.timeouts = {},
             !.last = Ran("cleanup") ]

----------------------------------------------------------------------------
Init ==
  /\ imageCache = EmptyMap
  /\ modelCache = EmptyMap
  /\ loadingPromises = EmptyMap
  /\ failedResources = {}
  /\ loadTimes = EmptyMap
  /\ loadCounts = EmptyMap
  /\ calls = << >>
  /\ preload = [ status |-> "idle", batches |-> << >>, bi |-> 0, waiting |-> {} ]
  /\ cleanups = 0
  /\ img = NoImage
  /\ resolved = Unresolved
  /\ markers = NoMarkers
  /\ geo = NewGeolocationManager

\* Spec: the callers of loadOptimizedImage, loadModel and cleanup
LoadImage(url) == Len(calls) < MaxCalls /\ LoadImageCall(url)

LoadModel(url) == Len(calls) < MaxCalls /\ LoadModelCall(url)

Cleanup == cleanups < MaxCleanups /\ CleanupCall

Settle ==
  \/ \E p \in InFlight, outcome \in {"ok", "error", "timeout"}, now \in Times :
       SettleImage(p, outcome, now)
  \/ \E p \in InFlight, outcome \in {"ok", "error"}, now \in Times :
       SettleModel(p, outcome, now)

Next ==
  \/ \E url \in DirectKeys : LoadImage(url)
  \/ \E url \in DirectKeys : LoadModel(url)
  \/ Settle
  \/ Cleanup

Spec == Init /\ [][Next]_vars

\* SpecLate: Spec with the events an img element raises after its timer fired
Late == \E p \in CallIds, ev \in {"load", "error"}, now \in Times : LateEvent(p, ev, now)

NextLate ==
  \/ Next
  \/ Late

SpecLate == Init /\ [][NextLate]_vars

\* SpecPreload: at most MaxBefore calls, then one call of preloadResources
LoadImageBefore(url) ==
  preload.status = "idle" /\ Len(calls) < MaxBefore /\ LoadImageCall(url)

LoadModelBefore(url) ==
  preload.status = "idle" /\ Len(calls) < MaxBefore /\ LoadModelCall(url)

PreloadStart(urls) == preload.status = "idle" /\ PreloadCall(urls)

NextPreload ==
  \/ \E url \in DirectKeys : LoadImageBefore(url)
  \/ \E url \in DirectKeys : LoadModelBefore(url)
  \/ Settle
  \/ Cleanup
  \/ \E urls \in PreloadLists : PreloadStart(urls)
  \/ PreloadAdvance

SpecPreload == Init /\ [][NextPreload]_vars

\* SpecPreloadLive: SpecPreload with the progress the runtime gives.  The
\* timer of line 87 settles every image load that neither loads nor errors,
\* and a settled Promise.all resumes preloadResources; nothing makes a
\* loader call back.
ImageSettles ==
  \E p \in InFlight, outcome \in {"ok", "error", "timeout"}, now \in Times :
    SettleImage(p, outcome, now)

SpecPreloadLive ==
  SpecPreload /\ WF_vars(ImageSettles) /\ WF_vars(PreloadAdvance)

\* SpecResize: one image of any of the sizes is fetched and loads
InitResize ==
  /\ imageCache = EmptyMap
  /\ modelCache = EmptyMap
  /\ loadingPromises = EmptyMap
  /\ failedResources = {}
  /\ loadTimes = EmptyMap
  /\ loadCounts = EmptyMap
  /\ calls = << >>
  /\ preload = [ status |-> "idle", batches |-> << >>, bi |-> 0, waiting |-> {} ]
  /\ cleanups = 0
  /\ img \in [ width : Sides, height : Sides ]
  /\ resolved = Unresolved
  /\ markers = NoMarkers
  /\ geo = NewGeolocationManager

NextResize == \E maxSize \in MaxSizes : ImgOnload(maxSize)

SpecResize == InitResize /\ [][NextResize]_vars

\* SpecMarkers: the callers of loadIcons and addMarkers, and the icon fetches
DirectIconCalls ==
  Len(markers.icalls) - Cardinality({ m \in 1..Len(markers.mcalls) :
                                        markers.mcalls[m].icall # 0 })

LoadIcons(icons) == DirectIconCalls < MaxIconCalls /\ LoadIconsCall(icons)

AddMarkers(icons) ==
  /\ Len(markers.mcalls) < MaxMarkerCalls
  /\ \E throws \in BOOLEAN : AddMarkersCall(icons, throws)

IconFetchEnds ==
  \E i \in 1..Len(markers.icalls), u \in Icons, ok \in BOOLEAN, throws \in BOOLEAN :
    IconSettles(i, u, ok, throws)

NextMarkers ==
  \/ \E icons \in SUBSET Icons : LoadIcons(icons)
  \/ \E icons \in SUBSET Icons : AddMarkers(icons)
  \/ IconFetchEnds

SpecMarkers == Init /\ [][NextMarkers]_vars

\* SpecGeo: the events and the callers of one GeolocationManager.  The
\* control calls _onSuccess and fires 'error' only while it is on the map, and
\* its button is there to click only then.
otherVars == << managerVars, markers >>

Success ==
  /\ geo.control
  /\ \E pos \in Positions, next \in WatchStates, layer \in BOOLEAN :
       /\ (geo.userInitiatedGeolocation /\ ~IsWithinBoundary(pos))
            => geo.popups < MaxPopups
       /\ geo' = OnSuccess(geo, pos, next, layer)
  /\ UNCHANGED otherVars

Error ==
  /\ geo.control
  /\ \E next \in WatchStates : geo' = OnError(geo, next)
  /\ UNCHANGED otherVars

Click ==
  /\ geo.control
  /\ \E next \in WatchStates : geo' = OnClick(geo, next)
  /\ UNCHANGED otherVars

Pause == geo' = PauseTracking(geo) /\ UNCHANGED otherVars

Resume == geo' = ResumeTracking(geo) /\ UNCHANGED otherVars

Timeout ==
  /\ \E id \in 1..Len(geo.timers) :
       /\ geo.timers[id].state = "pending"
       /\ geo' = TimeoutFires(geo, id)
  /\ UNCHANGED otherVars

CleanupGeo == geo' = GeoCleanup(geo) /\ UNCHANGED otherVars

NextGeo ==
  \/ Success
  \/ Error
  \/ Click
  \/ Pause
  \/ Resume
  \/ Timeout
  \/ CleanupGeo

SpecGeo == Init /\ [][NextGeo]_vars

----------------------------------------------------------------------------
\* Vocabulary of the properties

\* The calls a step makes
NewIds == (Len(calls) + 1)..Len(calls')

IsImage(c) == calls[c].op = "image"

Settled(c) == calls[c].status # "pending"

\* cleanup has not run since call c settled
FreshOutcome(c) == Settled(c) /\ calls[c].inv # "settled"

SameOutcome(r1, r2) ==
  r1.status = r2.status /\ r1.value = r2.value /\ r1.error = r2.error

TablesUnchanged ==
  UNCHANGED << imageCache, modelCache, failedResources, loadTimes, loadCounts >>

TablesEmpty(ic, mc, lp, fr, lt, lc) ==
  /\ DOMAIN ic = {} /\ DOMAIN mc = {} /\ DOMAIN lp = {}
  /\ fr = {} /\ DOMAIN lt = {} /\ DOMAIN lc = {}

PreloadInFlight == { p \in InFlight : calls[p].via = "preload" }

----------------------------------------------------------------------------
\* C1: two loadImage calls for the same key, the second made while the first
\* has not settled (and no cleanup since the first), cause one fetch only, and
\* when they settle both have the same outcome.
C1_DedupSameOutcome ==
  [][ \A c1 \in CallIds :
        (IsImage(c1) /\ calls[c1].status = "pending" /\ calls[c1].inv = "none") =>
          /\ \A c2 \in NewIds :
               (calls'[c2].op = "image" /\ calls'[c2].url = calls[c1].url)
                 => calls'[c2].role # "owner"
          /\ \A c2 \in CallIds \ {c1} :
               ( /\ IsImage(c2) /\ calls[c2].url = calls[c1].url
                 /\ calls[c2].status = "pending" /\ calls[c2].inv = "none"
                 /\ calls'[c1].status # "pending" )
                 => SameOutcome(calls'[c1], calls'[c2]) ]_vars

\* C2 as claimed: in every state at most one fetch is in flight per key.
C2_OneFetchPerKey ==
  \A p, q \in InFlight : calls[p].url = calls[q].url => p = q

\* C2 amended: at most one fetch is in flight per key in every state in which
\* the latest cleanup, if any, found no load in flight.
C2_OneFetchPerKeyUnlessCleanedInFlight ==
  (\A c \in CallIds : calls[c].inv # "pending") => C2_OneFetchPerKey

C2_Witness ==
  /\ \E c \in CallIds : calls[c].inv = "settled"
  /\ \A c \in CallIds : calls[c].inv # "pending"
  /\ \E p \in PreloadInFlight : \E c \in CallIds :
       /\ calls[c].role = "joiner" /\ calls[c].promise = p
       /\ calls[c].status = "pending"
       /\ calls[p].inv = "none"

\* C3: after a loadImage(key) whose fetch succeeded, with no cleanup since, a
\* later loadImage(key) starts no fetch and resolves with the artifact of that
\* fetch.
C3_CacheHit ==
  [][ \A c1 \in CallIds : \A c2 \in NewIds :
        ( /\ IsImage(c1) /\ calls[c1].role = "owner" /\ calls[c1].fetch = "ok"
          /\ calls[c1].inv = "none"
          /\ calls'[c2].op = "image" /\ calls'[c2].url = calls[c1].url )
        => /\ calls'[c2].role # "owner"
           /\ calls'[c2].status = "resolved"
           /\ calls'[c2].value = c1 ]_vars

\* C4: after a loadImage(key) was rejected, with no cleanup since, every
\* loadImage(key) is rejected at once with the previously-failed error and
\* touches no promise (starts no fetch, joins none).
C4_FailureMemo ==
  [][ \A c1 \in CallIds : \A c2 \in NewIds :
        ( /\ IsImage(c1) /\ calls[c1].status = "rejected" /\ FreshOutcome(c1)
          /\ calls'[c2].op = "image" /\ calls'[c2].url = calls[c1].url )
        => /\ calls'[c2].role = "none"
           /\ calls'[c2].status = "rejected"
           /\ calls'[c2].error = "PreviouslyFailed" ]_vars

C4_Witness ==
  \E c1, c2 \in CallIds :
    /\ c1 < c2 /\ IsImage(c1) /\ IsImage(c2) /\ calls[c1].url = calls[c2].url
    /\ calls[c1].role = "owner" /\ calls[c1].fetch = "error"
    /\ calls[c1].inv = "pending"
    /\ calls[c2].error = "PreviouslyFailed" /\ calls[c2].inv = "none"

\* C5: a loadModel call for a key in failedResources does not invoke the
\* loader and is rejected at once.
C5_ModelFailureMemo ==
  [][ \A c2 \in NewIds :
        (calls'[c2].op = "model" /\ calls'[c2].url \in failedResources)
        => (calls'[c2].role # "owner" /\ calls'[c2].status = "rejected") ]_vars

\* C6: a loadImage call for a key whose failure preceded the latest cleanup,
\* and that has not failed again since, is not rejected as previously failed;
\* unless a load of the key is pending, it starts a new fetch.
C6_RetryAfterCleanup ==
  [][ \A c1 \in CallIds : \A c2 \in NewIds :
        ( /\ calls[c1].status = "rejected" /\ calls[c1].inv = "settled"
          /\ ~ \E c \in CallIds :
                 /\ calls[c].url = calls[c1].url
                 /\ calls[c].status = "rejected" /\ FreshOutcome(c)
          /\ calls'[c2].op = "image" /\ calls'[c2].url = calls[c1].url )
        => /\ calls'[c2].error # "PreviouslyFailed"
           /\ (calls[c1].url \notin DOMAIN loadingPromises
                 => calls'[c2].role = "owner") ]_vars

C6_Witness ==
  \E c1, c2 \in CallIds :
    /\ c1 < c2 /\ IsImage(c1) /\ IsImage(c2) /\ calls[c1].url = calls[c2].url
    /\ calls[c1].status = "rejected" /\ calls[c1].inv = "settled"
    /\ calls[c2].role = "owner" /\ calls[c2].inv = "none"

\* C7: when a load that was in flight when cleanup ran settles, nothing is
\* added to the caches, to failedResources or to the load statistics.
C7_StaleSettlementDiscarded ==
  [][ \A p \in InFlight :
        (calls[p].inv = "pending" /\ calls'[p].status # "pending")
        => TablesUnchanged ]_vars

\* C8: the step that is a cleanup call leaves both caches, loadingPromises,
\* failedResources and the load statistics empty together.
C8_CleanupAtomic ==
  [][ cleanups' # cleanups =>
        TablesEmpty(imageCache', modelCache', loadingPromises',
                    failedResources', loadTimes', loadCounts') ]_vars

C8_Witness ==
  /\ cleanups > 0
  /\ TablesEmpty(imageCache, modelCache, loadingPromises, failedResources,
                 loadTimes, loadCounts)
  /\ \E c \in CallIds :
       calls[c].op = "model" /\ calls[c].fetch = "ok" /\ calls[c].inv = "settled"
  /\ \E c \in CallIds : calls[c].status = "rejected" /\ calls[c].inv = "settled"
  /\ \E c \in InFlight : calls[c].inv = "pending"

\* C9: preloadResources is never rejected, and when it has resolved (no cleanup
\* since it was called) every key of it whose fetch succeeded is in the image
\* cache and every key whose fetch failed is in failedResources.
C9_PreloadResilience ==
  /\ preload.status # "rejected"
  /\ preload.status = "resolved" =>
       \A c \in CallIds :
         (calls[c].via = "preload" /\ calls[c].role = "owner" /\ calls[c].inv = "none")
         => /\ calls[c].fetch = "ok" => calls[c].url \in DOMAIN imageCache
            /\ calls[c].fetch \in {"error", "timeout"}
                 => calls[c].url \in failedResources

\* C10: the fetches started by a preloadResources call and not yet settled
\* are never more than 3.
C10_PreloadCeiling == Cardinality(PreloadInFlight) <= 3

C10_Witness ==
  /\ Len(preload.batches) = 2
  /\ Cardinality(PreloadInFlight) = 3


\* C11: the batches of a preloadResources call are its keys in input order
\* cut into runs of 3 (the last 1 to 3 long); the loads of a batch are issued
\* in the batch's order, and only when every load of the batches before it
\* has settled.
RECURSIVE Flatten(_)
Flatten(seqs) == IF seqs = << >> THEN << >> ELSE Head(seqs) \o Flatten(Tail(seqs))

C11_SequentialBatches ==
  [][ (\E c \in NewIds : calls'[c].via = "preload") =>
        LET bs == preload'.batches
            b == bs[preload'.bi]
        IN
          /\ Flatten(bs) \in PreloadLists
          /\ \A i \in 1..Len(bs) :
               IF i < Len(bs) THEN Len(bs[i]) = 3 ELSE Len(bs[i]) \in 1..3
          /\ [ i \in 1..Len(b) |-> calls'[Len(calls) + i].url ] = b
          /\ Len(calls') = Len(calls) + Len(b)
          /\ \A c \in CallIds : calls[c].via = "preload" => Settled(c) ]_vars

C11_Witness ==
  /\ preload.status = "running" /\ preload.bi = 2
  /\ \E c \in preload.waiting : calls[c].status = "pending"
  /\ \E c \in CallIds : calls[c].via = "preload" /\ calls[c].fetch = "error"


\* C12 as claimed: a running preloadResources call can always go on by itself
\* (its await can return, or an image fetch is in flight, which settles by its
\* timeout at the latest); once resolved every load it made has settled; and
\* when it resolves none of its keys is in loadingPromises.
PreloadCalls == { c \in CallIds : calls[c].via = "preload" }

ModelInFlight == { p \in InFlight : calls[p].op = "model" }

C12_PreloadCompletes ==
  /\ [](preload.status = "running" =>
          (ENABLED PreloadAdvance \/ \E p \in InFlight : IsImage(p)))
  /\ [](preload.status = "resolved" => \A c \in PreloadCalls : Settled(c))
  /\ [][ (preload.status = "running" /\ preload'.status = "resolved") =>
           \A c \in PreloadCalls : calls[c].url \notin DOMAIN loadingPromises' ]_vars

\* What the code does give (C12): if every model load in flight settles in the
\* end, a running preloadResources call resolves in the end; once resolved
\* every load it made has settled, and loadingPromises holds no promise that
\* it created.
PreloadCompletesIfLoadersDo ==
  /\ ([]<>(ModelInFlight = {})) =>
       ((preload.status = "running") ~> (preload.status = "resolved"))
  /\ [](preload.status = "resolved" =>
          /\ \A c \in PreloadCalls : Settled(c)
          /\ \A k \in DOMAIN loadingPromises :
               loadingPromises[k] \notin PreloadCalls)



\* C13: when the timer of an image load fires before the image loads or errors,
\* the call that started the load and every call that joined it are rejected
\* with the timeout error, and right after that step the key is in
\* failedResources and not in loadingPromises.
TimedOutNow(c) ==
  /\ calls[c].status = "pending" /\ Settled(c)'
  /\ calls'[calls[c].promise].fetch = "timeout"

C13_TimeoutRejects ==
  [][ \A c \in CallIds :
        TimedOutNow(c) =>
          /\ calls'[c].status = "rejected"
          /\ calls'[c].error = "LoadTimeout"
          /\ calls[c].url \in failedResources'
          /\ calls[c].url \notin DOMAIN loadingPromises' ]_vars

C13_Witness ==
  \E p, c \in CallIds :
    /\ calls[p].role = "owner" /\ calls[p].fetch = "timeout"
    /\ calls[c].role = "joiner" /\ calls[c].promise = p
    /\ calls[c].error = "LoadTimeout"
    /\ calls[p].url \in failedResources
    /\ calls[p].url \notin DOMAIN loadingPromises


\* C14: as long as cleanup has not run, getStats reports as cachedImages the
\* number of distinct keys whose image load succeeded, as cachedModels the
\* number of distinct keys whose model load succeeded, and as failedResources
\* the number of distinct keys whose load failed.
KeysWith(op, outcomes) ==
  { calls[c].url : c \in { d \in CallIds : /\ calls[d].role = "owner"
                                           /\ calls[d].op = op
                                           /\ calls[d].fetch \in outcomes } }

C14_StatsExact ==
  cleanups = 0 =>
    /\ GetStats.cachedImages = Cardinality(KeysWith("image", {"ok"}))
    /\ GetStats.cachedModels = Cardinality(KeysWith("model", {"ok"}))
    /\ GetStats.failedResources =
         Cardinality(KeysWith("image", {"error", "timeout"})
                       \cup KeysWith("model", {"error"}))


\* C15: every call returns a promise, and a failure is a rejection of that
\* promise: a loadOptimizedImage call for a key in failedResources returns a
\* rejected promise; when a fetch or a loader fails, the call that started it
\* and every call still waiting on it are rejected with its error in that
\* step; a rejected call carries an error and no artifact; preloadResources
\* itself is never rejected.
FetchFailsNow(p) ==
  /\ calls[p].role = "owner" /\ calls[p].status = "pending"
  /\ calls'[p].fetch \in {"error", "timeout"}

C15_FailuresAreRejections ==
  [][ /\ \A c \in NewIds :
           (IsImage(c)' /\ calls'[c].url \in failedResources) =>
             calls'[c].status = "rejected" /\ calls'[c].error = "PreviouslyFailed"
      /\ \A p \in CallIds :
           FetchFailsNow(p) =>
             \A c \in CallIds :
               (calls[c].promise = p /\ calls[c].status = "pending") =>
                 /\ calls'[c].status = "rejected"
                 /\ calls'[c].error =
                      (IF calls'[p].fetch = "timeout" THEN "LoadTimeout"
                       ELSE IF calls[p].op = "image" THEN "LoadFailed"
                       ELSE "LoaderError")
      /\ \A c \in 1..Len(calls') :
           calls'[c].status = "rejected" <=> calls'[c].error # "none"
      /\ preload'.status \in {"idle", "running", "resolved"} ]_vars

C15_Witness ==
  /\ \E p, c \in CallIds :
       /\ calls[p].role = "owner" /\ calls[p].op = "model" /\ calls[p].fetch = "error"
       /\ calls[c].role = "joiner" /\ calls[c].promise = p
       /\ calls[c].via = "preload" /\ calls[c].error = "LoaderError"
  /\ \E c \in CallIds : calls[c].fetch = "timeout"
  /\ preload.status = "resolved"


\* C16: an image of w x h pixels that loads with max(w, h) > maxSize resolves
\* to an image whose longer side is maxSize, whose sides are in the ratio
\* w : h to the pixel, and neither of whose sides is longer than before; an
\* image with max(w, h) <= maxSize resolves to the original image, unchanged.
Abs(x) == IF x < 0 THEN 0 - x ELSE x

C16_ResizePolicy ==
  resolved # Unresolved =>
    LET w == img.width
        h == img.height
        m == resolved.maxSize
    IN IF Max(w, h) > m
         THEN /\ Max(resolved.width, resolved.height) = m
              /\ Abs(resolved.width * h - resolved.height * w) < Max(w, h)
              /\ resolved.width <= w /\ resolved.height <= h
         ELSE /\ resolved.original
              /\ resolved.width = w /\ resolved.height = h


\* C17: when a loadModel call of a key has resolved and cleanup has not run
\* since, every loadModel call of that key made afterwards resolves at once
\* with the same artifact and starts no loader.  (The loader argument has no
\* part in LoadModelSync's choice, so the call stands for any loader.)
C17_ModelCacheHit ==
  [][ \A c \in NewIds : \A d \in CallIds :
        ( /\ calls'[c].op = "model" /\ calls[d].op = "model"
          /\ calls'[c].url = calls[d].url
          /\ calls[d].status = "resolved" /\ FreshOutcome(d) ) =>
            /\ calls'[c].status = "resolved"
            /\ calls'[c].value = calls[d].value
            /\ calls'[c].role # "owner" ]_vars


\* C18: a key is in loadingPromises exactly while a load started for it has
\* not settled: every entry holds a load of that key still in flight, and
\* every load in flight that no cleanup has dropped from the map is the entry
\* of its key.
C18_PendingWhileUnsettled ==
  /\ \A k \in DOMAIN loadingPromises :
       loadingPromises[k] \in InFlight /\ calls[loadingPromises[k]].url = k
  /\ \A p \in InFlight :
       calls[p].inv = "none" =>
         /\ calls[p].url \in DOMAIN loadingPromises
         /\ loadingPromises[calls[p].url] = p

\* C19: no key is in loadingPromises and in imageCache or modelCache at once.
C19_PendingXorCached ==
  DOMAIN loadingPromises \cap (DOMAIN imageCache \cup DOMAIN modelCache) = {}

\* C20: as long as cleanup has not run, no key is in failedResources and in
\* imageCache or modelCache at once.
C20_FailedXorCached ==
  cleanups = 0 =>
    failedResources \cap (DOMAIN imageCache \cup DOMAIN modelCache) = {}


\* C21: when the fetch of a loadOptimizedImage call that started it succeeds,
\* the call resolves with the image, the key is in imageCache and has a load
\* time and a load count; and a key enters failedResources only in a step in
\* which a fetch or loader of that key ended in an error or a timeout.
FetchEndsNow(p, outcomes) ==
  /\ calls[p].role = "owner" /\ calls[p].status = "pending"
  /\ calls'[p].fetch \in outcomes

C21_SuccessIsCached ==
  [][ /\ \A p \in CallIds :
           (IsImage(p) /\ FetchEndsNow(p, {"ok"})) =>
             /\ calls'[p].status = "resolved" /\ calls'[p].value = p
             /\ calls[p].url \in DOMAIN imageCache'
             /\ calls[p].url \in DOMAIN loadTimes'
             /\ calls[p].url \in DOMAIN loadCounts'
      /\ \A k \in failedResources' \ failedResources :
           \E p \in CallIds :
             calls[p].url = k /\ FetchEndsNow(p, {"error", "timeout"}) ]_vars

\* C23: while a load of a key started by loadOptimizedImage is in flight, a
\* loadModel call of that key starts no loader, and the other way round; and
\* when the load settles, the call that started it and the calls of the other
\* kind waiting for that key have the same outcome.
C23_SharedLedger ==
  [][ \A c1 \in InFlight :
        calls[c1].inv = "none" =>
          /\ \A c2 \in NewIds :
               (calls'[c2].op # calls[c1].op /\ calls'[c2].url = calls[c1].url)
                 => /\ calls'[c2].role = "joiner"
                    /\ calls'[c2].promise = c1
          /\ \A c2 \in CallIds :
               ( /\ calls[c2].op # calls[c1].op /\ calls[c2].url = calls[c1].url
                 /\ calls[c2].status = "pending"
                 /\ calls'[c1].status # "pending" )
                 => SameOutcome(calls'[c1], calls'[c2]) ]_vars

\* C24: a load that settles leaves alone a loadingPromises entry of its key
\* that holds another load.
C24_SettleRemovesOwnEntryOnly ==
  [][ \A p \in InFlight :
        ( /\ calls'[p].status # "pending"
          /\ calls[p].url \in DOMAIN loadingPromises
          /\ loadingPromises[calls[p].url] # p ) =>
            /\ calls[p].url \in DOMAIN loadingPromises'
            /\ loadingPromises'[calls[p].url] = loadingPromises[calls[p].url] ]_vars

\* C25: every key with a load time or a load count has both, is in imageCache
\* or modelCache, and its count is at least 1; a step in which a call is
\* rejected leaves loadTimes and loadCounts as they were.
C25_StatsOnlyForCached ==
  /\ [](/\ DOMAIN loadTimes = DOMAIN loadCounts
        /\ \A k \in DOMAIN loadCounts :
             /\ k \in DOMAIN imageCache \cup DOMAIN modelCache
             /\ loadCounts[k] >= 1)
  /\ [][ (\E c \in 1..Len(calls') :
             /\ calls'[c].status = "rejected"
             /\ (c \in CallIds => calls[c].status = "pending"))
           => UNCHANGED << loadTimes, loadCounts >> ]_vars

C25_Witness ==
  /\ \E k \in DOMAIN loadCounts : loadCounts[k] = 2
  /\ \E c \in CallIds : calls[c].status = "rejected"


\* C22: a load or error event that the img element raises after the timer of
\* its load has fired changes no call's outcome, no cache and not
\* failedResources or loadingPromises; and the timer of a load fires only
\* while the load has neither loaded nor errored.
C22_LateSuccessDropped ==
  [][ /\ (\E p \in CallIds : calls[p].late # calls'[p].late) =>
           /\ \A c \in CallIds :
                /\ calls'[c].status = calls[c].status
                /\ calls'[c].value = calls[c].value
                /\ calls'[c].error = calls[c].error
                /\ calls'[c].fetch = calls[c].fetch
           /\ UNCHANGED << imageCache, modelCache, failedResources,
                           loadingPromises, loadTimes, loadCounts >>
      /\ \A p \in CallIds :
           (calls'[p].fetch = "timeout" /\ calls[p].fetch # "timeout") =>
             calls[p].fetch = "none" /\ calls[p].status = "pending" ]_vars

C22_Witness ==
  \E p, c \in CallIds :
    /\ calls[p].fetch = "timeout" /\ calls[p].late = "load"
    /\ calls[c].role = "joiner" /\ calls[c].promise = p
    /\ calls[c].error = "LoadTimeout"
    /\ calls[p].url \in failedResources


\* C26: whatever addMarkers calls are made, overlapping or not,
\* map.addSource('locations') runs at most once and map.addLayer at most
\* three times.
C26_MarkersAddedOnce ==
  markers.addSourceCalls <= 1 /\ markers.addLayerCalls <= 3

\* C27: no icon is being fetched for two loadIcons calls at once; the icons
\* being fetched are exactly those in loadingIcons; a loadIcons call fetches
\* no icon that is in loadingIcons when it is made; and the promise of a
\* loadIcons call is never rejected and is resolved exactly when none of its
\* fetches is left.
IconCallIds == 1..Len(markers.icalls)

C27_OneFetchPerIcon ==
  /\ [](/\ \A i, j \in IconCallIds :
             i # j => markers.icalls[i].waiting \cap markers.icalls[j].waiting = {}
        /\ markers.loadingIcons = UNION { markers.icalls[i].waiting : i \in IconCallIds }
        /\ \A i \in IconCallIds :
             /\ markers.icalls[i].status \in {"pending", "resolved"}
             /\ markers.icalls[i].status = "resolved" <=> markers.icalls[i].waiting = {})
  /\ [][ \A i \in 1..Len(markers'.icalls) :
           i \notin IconCallIds =>
             markers'.icalls[i].waiting \cap markers.loadingIcons = {} ]_vars

C27_Witness ==
  /\ Len(markers.icalls) >= 2
  /\ markers.icalls[1].icons = Icons /\ markers.icalls[1].waiting = {"i1"}
  /\ markers.icalls[2].icons = {"i2"} /\ markers.icalls[2].status = "resolved"
  /\ "i2" \notin markers.iconCache


\* C28: when _onSuccess runs with userInitiatedGeolocation set and a position
\* outside the boundary, the control's own _onSuccess is not called, the
\* watch state becomes OFF and the boundary popup is shown; after _onSuccess
\* or the 'error' handler has run userInitiatedGeolocation is false, and only
\* the button's click handler sets it.
C28_OutsideBoundaryStops ==
  [][ /\ ( /\ geo'.last.op = "success" /\ geo'.last.pos = "outside"
           /\ geo.userInitiatedGeolocation ) =>
             /\ ~geo'.last.original
             /\ geo'.watchState = "OFF"
             /\ geo'.last.popup /\ geo'.popups = geo.popups + 1
      /\ geo'.last.op \in {"success", "error"} => ~geo'.userInitiatedGeolocation
      /\ (geo'.userInitiatedGeolocation /\ ~geo.userInitiatedGeolocation)
           => geo'.last.op = "click" ]_vars

C28_Witness ==
  /\ geo.last.op = "success" /\ geo.last.pos = "outside" /\ geo.last.popup
  /\ geo.watchState = "OFF" /\ ~geo.userInitiatedGeolocation

\* C29: pauseTracking in the watch state ACTIVE_LOCK sets ACTIVE_ERROR and
\* wasTracking, and in any other state changes nothing; resumeTracking with
\* wasTracking set restores ACTIVE_LOCK and unsets wasTracking, and otherwise
\* changes nothing; wasTracking is set by pauseTracking only and unset by
\* resumeTracking only, so that a resume undoes the latest pause that acted.
SameButLast(G1, G2) == [ G1 EXCEPT !.last = G2.last ] = G2

C29_PauseResumeRoundTrip ==
  [][ /\ geo'.last.op = "pause" =>
           IF geo.control /\ geo.watchState = "ACTIVE_LOCK"
             THEN /\ geo'.watchState = "ACTIVE_ERROR" /\ geo'.wasTracking
                  /\ SameButLast([ geo EXCEPT !.watchState = "ACTIVE_ERROR",
                                              !.wasTracking = TRUE ], geo')
             ELSE SameButLast(geo, geo')
      /\ geo'.last.op = "resume" =>
           IF geo.control /\ geo.wasTracking
             THEN /\ geo'.watchState = "ACTIVE_LOCK" /\ ~geo'.wasTracking
                  /\ SameButLast([ geo EXCEPT !.watchState = "ACTIVE_LOCK",
                                              !.wasTracking = FALSE ], geo')
             ELSE SameButLast(geo, geo')
      /\ (geo'.wasTracking /\ ~geo.wasTracking) => geo'.last.op = "pause"
      /\ (geo.wasTracking /\ ~geo'.wasTracking) => geo'.last.op = "resume" ]_vars

C29_Witness ==
  /\ geo.last.op = "resume" /\ geo.last.did
  /\ geo.watchState = "ACTIVE_LOCK" /\ ~geo.wasTracking

\* C30: this.timeouts holds exactly the ids of the timeouts made by
\* addTrackedTimeout that have neither fired nor been cleared; a timeout that
\* fires is no longer in the set when its callback has run; after cleanup the
\* set is empty and no timeout is pending, and a cleared timeout never fires.
PendingTimeouts(G) == { id \in 1..Len(G.timers) : G.timers[id].state = "pending" }

C30_TrackedTimeouts ==
  /\ [](geo.timeouts = PendingTimeouts(geo))
  /\ [][ /\ \A id \in 1..Len(geo.timers) :
              /\ (geo.timers[id].state = "pending" /\ geo'.timers[id].state = "fired")
                   => id \notin geo'.timeouts
              /\ geo.timers[id].state = "cleared" => geo'.timers[id].state = "cleared"
         /\ geo'.last.op = "cleanup" =>
              geo'.timeouts = {} /\ PendingTimeouts(geo') = {} ]_vars

C30_Witness ==
  /\ geo.last.op = "cleanup"
  /\ \E id \in 1..Len(geo.timers) : geo.timers[id].state = "cleared"
  /\ \E id \in 1..Len(geo.timers) :
       geo.timers[id].state = "fired" /\ geo.timers[id].callback = "close"

============================================================================
